---- MODULE Spec2Model ----
(***************************************************************************)
(* A model of the Hotstar clone's three executable parts:                  *)
(*   - the TMDB API client      (src/unnamed/part_001, an axios instance), *)
(*   - the production server    (src/server.js, an express application),   *)
(*   - the CI/CD pipeline       (src/Jenkinsfile, a declarative pipeline). *)
(* The three share no state.  Each is checked under its own specification  *)
(* (SpecClient, SpecServer, SpecPipeline); Spec is their interleaving.     *)
(***************************************************************************)
EXTENDS Integers, Sequences, FiniteSets, TLC

VARIABLES
    calls,      \* API client: the state of each call
    proc,       \* server: "init", "running" or "exited"
    build,      \* server: the files of the build directory
    uptime,     \* server: process.uptime()
    requests,   \* server: the requests received, in arrival order
    answered,   \* server: the responses sent, in sending order
    console,    \* server: the lines written to the console
    run,        \* pipeline: "idle", "stages", "post" or "done"
    branch,     \* pipeline: the branch the run builds
    stageIdx,   \* pipeline: the position of the next stage
    executed,   \* pipeline: the stages whose steps ran, in order
    qualityGate,\* pipeline: the status SonarQube reported, once known
    result      \* pipeline: the result of the run

clientVars == <<calls>>
serverVars == <<proc, build, uptime, requests, answered, console>>
pipelineVars == <<run, branch, stageIdx, executed, qualityGate, result>>
vars == <<calls, proc, build, uptime, requests, answered, console,
          run, branch, stageIdx, executed, qualityGate, result>>

\* JavaScript's undefined: every optional field holds this or a record.
Undefined == [t |-> "undefined"]

(***************************************************************************)
(* API client: src/unnamed/part_001                                        *)
(***************************************************************************)

\* Bounds of the client model.
MaxCalls == 2
TicksPerTimeout == 2

\* timeout: 10000 (milliseconds), part_001 line 5.
timeout == 10000

CallIds == 1..MaxCalls

\* The inputs of a call: request path and payload.
Urls == {"/movie/popular", "/search/movie"}
Payloads == {Undefined, [t |-> "json", v |-> "query"]}

\* What the remote catalog service may answer.
Responses ==
    { [status |-> 200, data |-> "results"],
      [status |-> 404, data |-> "not found"],
      [status |-> 503, data |-> "unavailable"] }

\* Milliseconds elapsed after n clock ticks.
Ms(n) == (n * timeout) \div TicksPerTimeout

\* axios.create({...}): the instance defaults shared by every call.
tmdbAxiosInstance ==
    [ baseURL |-> "https://api.themoviedb.org/3",
      timeout |-> timeout,
      headers |-> [h \in {"Accept", "Content-Type"} |-> "application/json"] ]

\* The instance merges its defaults into the config of each call.
mergeConfig(url, data) ==
    [ url     |-> url,
      data    |-> data,
      baseURL |-> tmdbAxiosInstance.baseURL,
      timeout |-> tmdbAxiosInstance.timeout,
      headers |-> tmdbAxiosInstance.headers ]

\* A request interceptor that rebuilds the headers and loses Content-Type.
requestFulfilled_dropsContentType(config) ==
    [config EXCEPT !.headers = [h \in {"Accept"} |-> config.headers[h]]]

\* Request interceptor, fulfilled side: (config) => { return config; }
requestFulfilled(config) == config

\* Response interceptor, fulfilled side: (response) => response
responseFulfilled(response) == [kind |-> "fulfilled", value |-> response]

\* A rejected side that returns the error instead of rejecting with it.
responseRejected_returnsError(error) ==
    [ console |->
        IF error.response # Undefined
        THEN << [tag |-> "API Error:",
                 args |-> <<error.response.status, error.response.data>>] >>
        ELSE IF error.request # Undefined
        THEN << [tag |-> "Network Error:", args |-> <<error.request>>] >>
        ELSE << [tag |-> "Error:", args |-> <<error.message>>] >>,
      settle |-> [kind |-> "fulfilled", value |-> error] ]

\* A rejected side whose three tests are separate ifs, not an else-if chain.
responseRejected_noElse(error) ==
    [ console |->
        (IF error.response # Undefined
         THEN << [tag |-> "API Error:",
                  args |-> <<error.response.status, error.response.data>>] >>
         ELSE << >>)
        \o (IF error.request # Undefined
            THEN << [tag |-> "Network Error:", args |-> <<error.request>>] >>
            ELSE << >>)
        \o (IF error.response = Undefined /\ error.request = Undefined
            THEN << [tag |-> "Error:", args |-> <<error.message>>] >>
            ELSE << >>),
      settle |-> [kind |-> "rejected", value |-> error] ]

\* A rejected side that tests error.request before error.response.
responseRejected_requestFirst(error) ==
    [ console |->
        IF error.request # Undefined
        THEN << [tag |-> "Network Error:", args |-> <<error.request>>] >>
        ELSE IF error.response # Undefined
        THEN << [tag |-> "API Error:",
                 args |-> <<error.response.status, error.response.data>>] >>
        ELSE << [tag |-> "Error:", args |-> <<error.message>>] >>,
      settle |-> [kind |-> "rejected", value |-> error] ]

\* Response interceptor, rejected side: one console.error chosen by
\* if (error.response) / else if (error.request) / else, then
\* return Promise.reject(error).
responseRejected(error) ==
    [ console |->
        IF error.response # Undefined
        THEN << [tag |-> "API Error:",
                 args |-> <<error.response.status, error.response.data>>] >>
        ELSE IF error.request # Undefined
        THEN << [tag |-> "Network Error:", args |-> <<error.request>>] >>
        ELSE << [tag |-> "Error:", args |-> <<error.message>>] >>,
      settle |-> [kind |-> "rejected", value |-> error] ]

\* The request object of call c, and the failure objects axios creates.
\* oid is the identity of the failure object.
XHR(c) == [t |-> "request", call |-> c]

AxiosError(c, code, request, response) ==
    [ oid |-> c, message |-> code, code |-> code,
      request |-> request, response |-> response ]

\* A call that has not been issued.
IdleCall ==
    [ st |-> "idle", config |-> Undefined, wire |-> Undefined, sends |-> 0,
      elapsed |-> 0, received |-> Undefined, error |-> Undefined,
      outcome |-> Undefined,
      console |-> << >>, late |-> FALSE ]

InitClient == calls = [c \in CallIds |-> IdleCall]

InitServer ==
    /\ proc = "init"
    /\ build = {}
    /\ uptime = 0
    /\ requests = << >>
    /\ answered = << >>
    /\ console = << >>

InitPipeline ==
    /\ run = "idle"
    /\ branch = Undefined
    /\ stageIdx = 1
    /\ executed = << >>
    /\ qualityGate = "NONE"
    /\ result = "NONE"

Init == InitClient /\ InitServer /\ InitPipeline

\* The caller issues call c: defaults are merged and the config passes the
\* request interceptor.
Request(c, url, data) ==
    /\ calls[c].st = "idle"
    /\ \A d \in CallIds : d < c => calls[d].st # "idle"
    /\ calls' = [calls EXCEPT ![c].st = "ready",
                              ![c].config = requestFulfilled(mergeConfig(url, data))]
    /\ UNCHANGED <<serverVars, pipelineVars>>

\* The adapter puts the request on the wire and arms the timeout.
Dispatch(c) ==
    /\ calls[c].st = "ready"
    /\ calls' = [calls EXCEPT ![c].st = "sent",
                              ![c].sends = @ + 1,
                              ![c].wire = [ url     |-> calls[c].config.url,
                                            data    |-> calls[c].config.data,
                                            headers |-> calls[c].config.headers ]]
    /\ UNCHANGED <<serverVars, pipelineVars>>

\* The failure e reaches the response interceptor's rejected side.
Reject(c, e) ==
    LET r == responseRejected(e) IN
    /\ calls' = [calls EXCEPT ![c].st = "done",
                              ![c].received = e.response,
                              ![c].error = e,
                              ![c].console = @ \o r.console,
                              ![c].outcome = r.settle]
    /\ UNCHANGED <<serverVars, pipelineVars>>

\* The request cannot be constructed: nothing is sent.
DispatchThrows(c) ==
    /\ calls[c].st = "ready"
    /\ Reject(c, AxiosError(c, "ERR_BAD_OPTION", Undefined, Undefined))

\* The clock advances; a call at its timeout boundary is settled first.
Tick ==
    /\ \E c \in CallIds : calls[c].st = "sent"
    /\ \A c \in CallIds :
          calls[c].st = "sent" => Ms(calls[c].elapsed) < calls[c].config.timeout
    /\ calls' = [c \in CallIds |->
                    IF calls[c].st = "sent"
                    THEN [calls[c] EXCEPT !.elapsed = @ + 1]
                    ELSE calls[c]]
    /\ UNCHANGED <<serverVars, pipelineVars>>

\* The remote service answers before the timeout boundary.  A 2xx status
\* resolves the call, any other status rejects it with both the request and
\* the response attached.
Answer(c, resp) ==
    /\ calls[c].st = "sent"
    /\ Ms(calls[c].elapsed) < calls[c].config.timeout
    /\ IF resp.status >= 200 /\ resp.status < 300
       THEN /\ calls' = [calls EXCEPT ![c].st = "done",
                                      ![c].received = resp,
                                      ![c].outcome = responseFulfilled(resp)]
            /\ UNCHANGED <<serverVars, pipelineVars>>
       ELSE Reject(c, AxiosError(c, "ERR_BAD_RESPONSE", XHR(c), resp))

\* The connection fails before the timeout boundary.
NetworkError(c) ==
    /\ calls[c].st = "sent"
    /\ Ms(calls[c].elapsed) < calls[c].config.timeout
    /\ Reject(c, AxiosError(c, "ERR_NETWORK", XHR(c), Undefined))

\* The timeout boundary is reached with no answer: the request is aborted.
TimeoutFires(c) ==
    /\ calls[c].st = "sent"
    /\ Ms(calls[c].elapsed) >= calls[c].config.timeout
    /\ Reject(c, AxiosError(c, "ECONNABORTED", XHR(c), Undefined))

\* The remote service answers a request that was aborted at the boundary.
LateAnswer(c, resp) ==
    /\ calls[c].st = "done"
    /\ calls[c].error # Undefined
    /\ calls[c].error.code = "ECONNABORTED"
    /\ ~calls[c].late
    /\ calls' = [calls EXCEPT ![c].late = TRUE]
    /\ UNCHANGED <<serverVars, pipelineVars>>

NextClient ==
    \/ \E c \in CallIds, url \in Urls, data \in Payloads : Request(c, url, data)
    \/ \E c \in CallIds : Dispatch(c)
    \/ \E c \in CallIds : DispatchThrows(c)
    \/ Tick
    \/ \E c \in CallIds, resp \in Responses : Answer(c, resp)
    \/ \E c \in CallIds : NetworkError(c)
    \/ \E c \in CallIds : TimeoutFires(c)
    \/ \E c \in CallIds, resp \in Responses : LateAnswer(c, resp)

SpecClient == Init /\ [][NextClient]_vars

(***************************************************************************)
(* Production server: src/server.js                                        *)
(***************************************************************************)

\* Bounds of the server model.
MaxRequests == 2
MaxUptime == 1

\* The requests a client may send.  "/%E0%A4%A" is a path whose
\* percent-encoding cannot be decoded.
Methods == {"GET", "HEAD", "POST", "PUT", "DELETE"}
Paths == {"/health", "/metrics", "/static/js/main.js",
          "/this/does/not/exist", "/%E0%A4%A"}
MalformedPaths == {"/%E0%A4%A"}
Decodable(path) == path \notin MalformedPaths

\* The requests sent: a GET of every path; with every other method the
\* operational endpoints and a path nothing matches.
Requests ==
    {r \in [method : Methods, path : Paths] :
        \/ r.method = "GET"
        \/ r.path \in {"/health", "/metrics", "/this/does/not/exist"}}

\* The build directories the server may be started on: a complete bundle, a
\* bundle that also holds files named health and metrics, and no bundle.
Builds ==
    { {"/index.html", "/static/js/main.js"},
      {"/index.html", "/static/js/main.js", "/health", "/metrics"},
      {} }

\* NODE_ENV and APP_VERSION with their defaults.
NODE_ENV == "production"
APP_VERSION == "1.0.0"

\* The content-security-policy given to helmet.
contentSecurityPolicy ==
    [ defaultSrc |-> {"'self'"},
      styleSrc   |-> {"'self'", "'unsafe-inline'", "https://fonts.googleapis.com",
                      "https://cdnjs.cloudflare.com"},
      fontSrc    |-> {"'self'", "https://fonts.gstatic.com",
                      "https://cdnjs.cloudflare.com"},
      scriptSrc  |-> {"'self'"},
      imgSrc     |-> {"'self'", "data:", "https:", "http:"},
      connectSrc |-> {"'self'", "https://api.themoviedb.org"} ]

\* The response object a request starts with: no header set, no layer visited.
NewRes == [csp |-> Undefined, encoding |-> Undefined, trail |-> << >>]

\* What a layer does: it sends a response, or calls next (with an error or
\* without one).
Send(res, layer, status, type, body) ==
    [ t |-> "send",
      response |-> [ status |-> status, type |-> type, body |-> body,
                     csp |-> res.csp, encoding |-> res.encoding,
                     via |-> layer, trail |-> res.trail ] ]
NextLayer(res, err) == [t |-> "next", res |-> res, err |-> err]

\* app.use(helmet({contentSecurityPolicy: ..})): sets the header, calls next.
helmet(req, res, up) ==
    NextLayer([res EXCEPT !.csp = contentSecurityPolicy], Undefined)

\* app.use(compression()): wraps the response, calls next.
compression(req, res, up) ==
    NextLayer([res EXCEPT !.encoding = "negotiated"], Undefined)

\* A health handler that reports the time left of some deadline, not the
\* time since start.
health_countsDown(req, res, up) ==
    IF req.method \in {"GET", "HEAD"} /\ req.path = "/health"
    THEN Send(res, "health", 200, "json",
              [ status |-> "healthy", timestamp |-> up, uptime |-> 0 - up,
                environment |-> NODE_ENV, version |-> APP_VERSION ])
    ELSE NextLayer(res, Undefined)

\* app.get('/health', ..): res.status(200).json({...}).
health(req, res, up) ==
    IF req.method \in {"GET", "HEAD"} /\ req.path = "/health"
    THEN Send(res, "health", 200, "json",
              [ status |-> "healthy", timestamp |-> up, uptime |-> up,
                environment |-> NODE_ENV, version |-> APP_VERSION ])
    ELSE NextLayer(res, Undefined)

\* app.get('/metrics', ..): res.status(200).json({...}).
metrics(req, res, up) ==
    IF req.method \in {"GET", "HEAD"} /\ req.path = "/metrics"
    THEN Send(res, "metrics", 200, "json",
              [ memory |-> "memoryUsage", uptime |-> up, cpu |-> "cpuUsage" ])
    ELSE NextLayer(res, Undefined)

\* app.use(express.static(build, {maxAge: '1y', etag, lastModified})): a GET
\* or HEAD of a file of the build directory is answered with the file; every
\* other request (an undecodable path included) falls through.
static(req, res, up) ==
    IF /\ req.method \in {"GET", "HEAD"}
       /\ Decodable(req.path)
       /\ req.path \in build
    THEN Send(res, "static", 200, "file",
              [file |-> req.path, maxAge |-> "1y", etag |-> TRUE])
    ELSE NextLayer(res, Undefined)

\* A catch-all registered for every method (app.use or app.all), not app.get.
spa_anyMethod(req, res, up) ==
    IF ~Decodable(req.path)
    THEN NextLayer(res, [name |-> "URIError", status |-> 400])
    ELSE IF "/index.html" \in build
    THEN Send(res, "spa", 200, "file",
              [file |-> "/index.html", maxAge |-> "0", etag |-> TRUE])
    ELSE NextLayer(res, [name |-> "ENOENT", status |-> 404])

\* app.get('*', ..): res.sendFile(build/index.html).  Matching '*' decodes the
\* path and fails on an undecodable one; sendFile without a callback passes a
\* read failure to next.
spa(req, res, up) ==
    IF req.method \in {"GET", "HEAD"}
    THEN IF ~Decodable(req.path)
         THEN NextLayer(res, [name |-> "URIError", status |-> 400])
         ELSE IF "/index.html" \in build
         THEN Send(res, "spa", 200, "file",
                   [file |-> "/index.html", maxAge |-> "0", etag |-> TRUE])
         ELSE NextLayer(res, [name |-> "ENOENT", status |-> 404])
    ELSE NextLayer(res, Undefined)

\* An error handler that answers with the status the error carries.
errorHandler_errStatus(err, req, res) ==
    Send(res, "error", err.status, "json", [error |-> "Internal Server Error"])

\* app.use((err, req, res, next) => ..): res.status(500).json({error: ..}).
errorHandler(err, req, res) ==
    Send(res, "error", 500, "json", [error |-> "Internal Server Error"])

\* express's own last resort when no layer answered: 404 without an error,
\* the error's status with one; it replaces the content-security-policy.
finalhandler(err, req, res) ==
    Send([res EXCEPT !.csp = [defaultSrc |-> {"'none'"}], !.encoding = Undefined],
         "finalhandler",
         IF err = Undefined THEN 404 ELSE err.status,
         "html",
         IF err = Undefined THEN "Cannot " \o req.method ELSE err.name)

\* The stack with helmet registered after the operational endpoints.
stack_helmetLate ==
    <<"compression", "health", "metrics", "helmet", "static", "spa", "error">>

\* The stack with express.static registered before the operational endpoints.
stack_staticFirst ==
    <<"helmet", "compression", "static", "health", "metrics", "spa", "error">>

\* The stack without the catch-all route.
stack_noSpa ==
    <<"helmet", "compression", "health", "metrics", "static", "error">>

\* The layers of the application in the order server.js registers them.
stack ==
    <<"helmet", "compression", "health", "metrics", "static", "spa", "error">>

\* One layer of the stack applied to a request without a pending error.
RunLayer(layer, req, res, up) ==
    LET r == [res EXCEPT !.trail = Append(@, layer)] IN
    CASE layer = "helmet"      -> helmet(req, r, up)
      [] layer = "compression" -> compression(req, r, up)
      [] layer = "health"      -> health(req, r, up)
      [] layer = "metrics"     -> metrics(req, r, up)
      [] layer = "static"      -> static(req, r, up)
      [] layer = "spa"         -> spa(req, r, up)

\* express's router: the layers are tried in order; without a pending error
\* the error-handling layer is skipped, with one only it is run.
RECURSIVE dispatch(_, _, _, _, _)
dispatch(i, req, res, err, up) ==
    IF i > Len(stack)
    THEN finalhandler(err, req, res).response
    ELSE IF err # Undefined
    THEN IF stack[i] = "error"
         THEN errorHandler(err, req, [res EXCEPT !.trail = Append(@, "error")]).response
         ELSE dispatch(i + 1, req, res, err, up)
    ELSE IF stack[i] = "error"
    THEN dispatch(i + 1, req, res, err, up)
    ELSE LET out == RunLayer(stack[i], req, res, up) IN
         IF out.t = "send"
         THEN out.response
         ELSE dispatch(i + 1, req, out.res, out.err, up)

\* The error, if any, that handling the request raises.
RECURSIVE raised(_, _, _, _)
raised(i, req, res, up) ==
    IF i > Len(stack) THEN Undefined
    ELSE IF stack[i] = "error" THEN raised(i + 1, req, res, up)
    ELSE LET out == RunLayer(stack[i], req, res, up) IN
         IF out.t = "send" THEN Undefined
         ELSE IF out.err # Undefined THEN out.err
         ELSE raised(i + 1, req, out.res, up)

Pending == {r \in 1..Len(requests) : \A i \in 1..Len(answered) : answered[i].rid # r}

\* app.listen(PORT, '0.0.0.0', ..): the server starts on the build directory
\* it finds.
Listen(b) ==
    /\ proc = "init"
    /\ proc' = "running"
    /\ build' = b
    /\ console' = Append(console, "Server running")
    /\ UNCHANGED <<uptime, requests, answered>>
    /\ UNCHANGED <<clientVars, pipelineVars>>

\* Time passes in the running process.
UptimeTick ==
    /\ proc = "running"
    /\ uptime < MaxUptime
    /\ uptime' = uptime + 1
    /\ UNCHANGED <<proc, build, requests, answered, console>>
    /\ UNCHANGED <<clientVars, pipelineVars>>

\* A request arrives at the running server.
Arrive(method, path) ==
    /\ proc = "running"
    /\ Len(requests) < MaxRequests
    /\ [method |-> method, path |-> path] \in Requests
    /\ requests' = Append(requests, [method |-> method, path |-> path])
    /\ UNCHANGED <<proc, build, uptime, answered, console>>
    /\ UNCHANGED <<clientVars, pipelineVars>>

\* The application handles request r and sends its response.
Handle(r) ==
    /\ proc = "running"
    /\ r \in Pending
    /\ LET err == raised(1, requests[r], NewRes, uptime)
           response == dispatch(1, requests[r], NewRes, Undefined, uptime)
       IN /\ answered' = Append(answered,
                [rid |-> r, request |-> requests[r], err |-> err,
                 response |-> response])
          /\ console' = IF response.via = "error"
                        THEN Append(console, "Error:")
                        ELSE console
    /\ UNCHANGED <<proc, build, uptime, requests>>
    /\ UNCHANGED <<clientVars, pipelineVars>>

\* A handler that finishes the requests in flight before it exits.
SIGTERM_drains ==
    /\ proc = "running"
    /\ Pending = {}
    /\ proc' = "exited"
    /\ console' = Append(console, "SIGTERM received, shutting down gracefully")
    /\ UNCHANGED <<build, uptime, requests, answered>>
    /\ UNCHANGED <<clientVars, pipelineVars>>

\* process.on('SIGTERM', ..): console.log, then process.exit(0).
SIGTERM ==
    /\ proc = "running"
    /\ proc' = "exited"
    /\ console' = Append(console, "SIGTERM received, shutting down gracefully")
    /\ UNCHANGED <<build, uptime, requests, answered>>
    /\ UNCHANGED <<clientVars, pipelineVars>>

NextServer ==
    \/ \E b \in Builds : Listen(b)
    \/ UptimeTick
    \/ \E method \in Methods, path \in Paths : Arrive(method, path)
    \/ \E r \in 1..MaxRequests : Handle(r)
    \/ SIGTERM

SpecServer == Init /\ [][NextServer]_vars

(***************************************************************************)
(* CI/CD pipeline: src/Jenkinsfile                                         *)
(***************************************************************************)

\* The stages in the order the Jenkinsfile declares them.  whenMain marks a
\* stage guarded by when { branch 'main' }; mayFail is FALSE for the stage
\* whose script exits 0 on every path.
Stage(name, whenMain, mayFail) ==
    [name |-> name, whenMain |-> whenMain, mayFail |-> mayFail]

stages ==
    << Stage("Clean Workspace", FALSE, TRUE),
       Stage("Checkout from Git", FALSE, TRUE),
       Stage("Sonarqube Analysis", FALSE, TRUE),
       Stage("Quality Gate", FALSE, TRUE),
       Stage("Install Dependencies", FALSE, TRUE),
       Stage("Build Application", FALSE, TRUE),
       Stage("OWASP Dependency Check", FALSE, TRUE),
       Stage("Docker Scout FS Scan", FALSE, TRUE),
       Stage("Docker Build", FALSE, TRUE),
       Stage("Docker Push to Registry", FALSE, TRUE),
       Stage("Docker Scout Image Scan", FALSE, TRUE),
       Stage("Deploy Docker Container", TRUE, TRUE),
       Stage("Deploy to Kubernetes", TRUE, TRUE),
       Stage("Smoke Tests", TRUE, FALSE) >>

\* The branches a run may build.
Branches == {"main", "feature"}

\* waitForQualityGate abortPipeline: false
abortPipeline == FALSE

\* The outcome of the quality-gate step for a reported status: the step fails
\* the run only when abortPipeline is set and the status is not OK.
waitForQualityGate(status) ==
    IF abortPipeline /\ status # "OK" THEN "FAILURE" ELSE "SUCCESS"

\* The run goes on to the next stage, or to the post section after the last.
Advance ==
    /\ stageIdx' = stageIdx + 1
    /\ IF stageIdx = Len(stages)
       THEN run' = "post" /\ result' = "SUCCESS"
       ELSE run' = run /\ result' = result

\* A failed step ends the stages: the remaining ones are not run.
Fail ==
    /\ run' = "post"
    /\ result' = "FAILURE"
    /\ stageIdx' = stageIdx

\* A run is triggered on a branch.
Trigger(b) ==
    /\ run = "idle"
    /\ run' = "stages"
    /\ branch' = b
    /\ UNCHANGED <<stageIdx, executed, qualityGate, result>>
    /\ UNCHANGED <<clientVars, serverVars>>

\* A stage whose when condition is false is skipped.
SkipStage ==
    /\ run = "stages"
    /\ stages[stageIdx].whenMain /\ branch # "main"
    /\ Advance
    /\ UNCHANGED <<branch, executed, qualityGate>>
    /\ UNCHANGED <<clientVars, serverVars>>

\* The steps of a stage other than Quality Gate run, and succeed or fail.
RunSteps(ok) ==
    /\ run = "stages"
    /\ stages[stageIdx].name # "Quality Gate"
    /\ stages[stageIdx].whenMain => branch = "main"
    /\ executed' = Append(executed, stages[stageIdx].name)
    /\ IF ok \/ ~stages[stageIdx].mayFail THEN Advance ELSE Fail
    /\ UNCHANGED <<branch, qualityGate>>
    /\ UNCHANGED <<clientVars, serverVars>>

\* stage('Quality Gate'): SonarQube reports the status of the analysis.
QualityGate(status) ==
    /\ run = "stages"
    /\ stages[stageIdx].name = "Quality Gate"
    /\ executed' = Append(executed, "Quality Gate")
    /\ qualityGate' = status
    /\ IF waitForQualityGate(status) = "SUCCESS" THEN Advance ELSE Fail
    /\ UNCHANGED branch
    /\ UNCHANGED <<clientVars, serverVars>>

\* post { always .. success .. failure .. }
Post ==
    /\ run = "post"
    /\ run' = "done"
    /\ executed' = Append(executed, "post:" \o result)
    /\ UNCHANGED <<branch, stageIdx, qualityGate, result>>
    /\ UNCHANGED <<clientVars, serverVars>>

NextPipeline ==
    \/ \E b \in Branches : Trigger(b)
    \/ SkipStage
    \/ \E ok \in BOOLEAN : RunSteps(ok)
    \/ \E status \in {"OK", "ERROR"} : QualityGate(status)
    \/ Post

SpecPipeline == Init /\ [][NextPipeline]_vars

\* The whole system: the three parts interleaved.
Next == NextClient \/ NextServer \/ NextPipeline

Spec == Init /\ [][Next]_vars

(***************************************************************************)
(* Properties of the API client                                            *)
(***************************************************************************)

Settled(c) == calls[c].st = "done"
Failed(c) == Settled(c) /\ calls[c].error # Undefined
Tags(c) == {calls[c].console[i].tag : i \in 1..Len(calls[c].console)}

\* C1: the client is observability-only.  A failed call rejects with the very
\* failure object the interceptor was handed (same identity, and for a non-2xx
\* answer the status and body that were received); no failure becomes a
\* success; a successful response reaches the caller as received; and no call
\* puts more than one request on the wire.
C1_ObservabilityOnly ==
    \A c \in CallIds :
        /\ calls[c].sends <= 1
        /\ Failed(c) =>
              /\ calls[c].outcome.kind = "rejected"
              /\ calls[c].outcome.value = calls[c].error
              /\ calls[c].outcome.value.oid = c
              /\ calls[c].received # Undefined =>
                    /\ calls[c].outcome.value.response.status = calls[c].received.status
                    /\ calls[c].outcome.value.response.data = calls[c].received.data
        /\ (Settled(c) /\ ~Failed(c)) =>
              /\ calls[c].console = << >>
              /\ calls[c].outcome = [kind |-> "fulfilled", value |-> calls[c].received]
              /\ calls[c].received.status \in 200..299

\* Witness of C1: one call failed on a 404 after its single send, another
\* succeeded.
C1_Witness ==
    \E c, d \in CallIds :
        /\ Failed(c) /\ calls[c].sends = 1
        /\ calls[c].received # Undefined /\ calls[c].received.status = 404
        /\ Settled(d) /\ ~Failed(d)

\* C2: every failure on the response path is logged exactly once, as
\* "API Error:" when it carries a response (also when it carries a request
\* too), as "Network Error:" when it carries a request and no response, as
\* "Error:" otherwise; calls that did not fail log nothing.
C2_ClassifiedOnce ==
    \A c \in CallIds :
        /\ Failed(c) =>
              /\ Len(calls[c].console) = 1
              /\ calls[c].outcome.kind = "rejected"
              /\ calls[c].console[1].tag =
                    IF calls[c].error.response # Undefined THEN "API Error:"
                    ELSE IF calls[c].error.request # Undefined THEN "Network Error:"
                    ELSE "Error:"
              /\ (calls[c].error.response # Undefined /\ calls[c].error.request # Undefined)
                    => calls[c].console[1].tag = "API Error:"
        /\ ~Failed(c) => calls[c].console = << >>

\* Witness of C2: a failure carrying both a response and a request, logged as
\* a bad status.
C2_Witness ==
    \E c \in CallIds :
        /\ Failed(c)
        /\ calls[c].error.response # Undefined
        /\ calls[c].error.request # Undefined
        /\ Tags(c) = {"API Error:"}

\* C3, state part: a call is never in flight past the 10000 ms boundary; a
\* call that timed out was settled at the boundary, rejected, and logged as
\* "Network Error:" and not as "API Error:"; a call whose answer arrived was
\* settled before the boundary and is not logged as "Network Error:".
C3_State ==
    \A c \in CallIds :
        /\ calls[c].st = "sent" => Ms(calls[c].elapsed) <= 10000
        /\ (Failed(c) /\ calls[c].error.code = "ECONNABORTED") =>
              /\ Ms(calls[c].elapsed) = 10000
              /\ calls[c].outcome.kind = "rejected"
              /\ calls[c].received = Undefined
              /\ Tags(c) = {"Network Error:"}
        /\ (Settled(c) /\ calls[c].received # Undefined) =>
              /\ Ms(calls[c].elapsed) < 10000
              /\ "Network Error:" \notin Tags(c)
        /\ (Settled(c) /\ Ms(calls[c].elapsed) >= 10000) =>
              /\ Failed(c)
              /\ calls[c].error.code = "ECONNABORTED"

\* C3, step part: once a call is settled, nothing (a late answer included)
\* changes its outcome or its log.
C3_Step ==
    \A c \in CallIds :
        Settled(c) =>
            /\ calls'[c].st = "done"
            /\ calls'[c].outcome = calls[c].outcome
            /\ calls'[c].console = calls[c].console

\* C3: a call with no answer within the timeout boundary ends rejected and
\* classified "no response", never "bad status"; an answer before the boundary
\* is never classified "no response"; an answer after the boundary changes
\* nothing.
C3_TimeoutIsNoResponse == [](C3_State) /\ [][C3_Step]_vars

\* Witness of C3: a timed-out call that later saw a late answer.
C3_Witness ==
    \E c \in CallIds :
        /\ Failed(c) /\ calls[c].error.code = "ECONNABORTED"
        /\ calls[c].late
        /\ Tags(c) = {"Network Error:"}

Sent == 1..Len(answered)
IsGet(a, path) == a.request.method = "GET" /\ a.request.path = path
RaisedFailure(a) == a.err # Undefined

\* A GET that matches neither operational endpoint nor a static asset.
Unmatched(a) ==
    /\ a.request.method = "GET"
    /\ a.request.path \notin {"/health", "/metrics"}
    /\ a.request.path \notin build

IsEntryDocument(a) ==
    /\ a.response.status = 200
    /\ a.response.via = "spa"
    /\ a.response.body.file = "/index.html"

IsGenericError(a) ==
    /\ a.response.status = 500
    /\ a.response.type = "json"
    /\ "error" \in DOMAIN a.response.body

\* C5: every GET /health and every GET /metrics is answered 200, whatever was
\* handled before and in whatever order the requests are handled; the health
\* body carries "healthy" and an uptime >= 0, and the uptimes of successive
\* health responses never decrease.
C5_OperationalEndpoints ==
    /\ \A i \in Sent :
          /\ IsGet(answered[i], "/health") =>
                /\ answered[i].response.status = 200
                /\ answered[i].response.via = "health"
                /\ answered[i].response.body.status = "healthy"
                /\ answered[i].response.body.uptime >= 0
          /\ IsGet(answered[i], "/metrics") =>
                /\ answered[i].response.status = 200
                /\ answered[i].response.via = "metrics"
                /\ answered[i].response.body.uptime >= 0
    /\ \A i, j \in Sent :
          (i < j /\ answered[i].response.via = "health"
                 /\ answered[j].response.via = "health")
             => answered[i].response.body.uptime <= answered[j].response.body.uptime

\* Witness of C5: two concurrent health probes answered out of arrival order,
\* the later answer reporting a larger uptime.
C5_Witness ==
    \E i, j \in Sent :
        /\ i < j /\ answered[i].rid > answered[j].rid
        /\ IsGet(answered[i], "/health") /\ IsGet(answered[j], "/health")
        /\ answered[i].response.body.uptime < answered[j].response.body.uptime

\* C6 as stated: every GET that matches neither /health, /metrics nor a
\* static asset is answered 200 with the entry document.
C6_AlwaysEntryDocument ==
    \A i \in Sent : Unmatched(answered[i]) => IsEntryDocument(answered[i])

\* C6 as amended: such a GET is answered 200 with the entry document when its
\* path can be decoded and the entry document is in the build directory;
\* otherwise handling it fails and it is answered with the generic 500; it is
\* never answered 404.
C6_EntryDocumentUnlessFailure ==
    \A i \in Sent :
        Unmatched(answered[i]) =>
            /\ answered[i].response.status # 404
            /\ IF Decodable(answered[i].request.path) /\ "/index.html" \in build
               THEN IsEntryDocument(answered[i])
               ELSE RaisedFailure(answered[i]) /\ IsGenericError(answered[i])

\* Witness of C6: an unknown path answered with the entry document and an
\* undecodable path answered 500, by the same server.
C6_Witness ==
    \E i, j \in Sent :
        /\ Unmatched(answered[i]) /\ IsEntryDocument(answered[i])
        /\ answered[i].request.path = "/this/does/not/exist"
        /\ Unmatched(answered[j]) /\ IsGenericError(answered[j])
        /\ ~Decodable(answered[j].request.path)

\* C7, state part: a request whose handling raised a failure is answered 500
\* with a JSON body holding an error field, and once a request has failed,
\* every request not yet answered can still be handled while the process runs.
C7_State ==
    /\ \A i \in Sent : RaisedFailure(answered[i]) => IsGenericError(answered[i])
    /\ (proc = "running" /\ \E i \in Sent : RaisedFailure(answered[i]))
          => \A r \in Pending : ENABLED Handle(r)

\* C7, step part: the step that answers a failed request leaves the process
\* running and changes nothing a later request's handling depends on.
C7_Step ==
    (/\ Len(answered') = Len(answered) + 1
     /\ RaisedFailure(answered'[Len(answered')]))
       => /\ proc = "running" /\ proc' = "running"
          /\ build' = build
          /\ uptime' = uptime
          /\ requests' = requests

\* C7: a failure raised while handling a request is answered 500 with a JSON
\* error body, the process keeps running, and later requests are handled as
\* if the failure had not occurred.
C7_FailureIsContained == [](C7_State) /\ [][C7_Step]_vars

\* Witness of C7: a failed request answered 500, then a health probe that
\* arrived after it answered 200.
C7_Witness ==
    \E i, j \in Sent :
        /\ i < j /\ answered[i].rid < answered[j].rid
        /\ RaisedFailure(answered[i]) /\ IsGenericError(answered[i])
        /\ IsGet(answered[j], "/health") /\ answered[j].response.status = 200

C9_Step ==
    /\ (proc = "running" /\ proc' # "running") =>
          /\ proc' = "exited"
          /\ answered' = answered
          /\ console' = Append(console, "SIGTERM received, shutting down gracefully")
    /\ proc = "exited" =>
          /\ proc' = "exited"
          /\ answered' = answered
          /\ requests' = requests

StageNames == {stages[i].name : i \in 1..Len(stages)}
PositionOf(name) == CHOOSE i \in 1..Len(stages) : stages[i].name = name
Ran(name) == \E i \in 1..Len(executed) : executed[i] = name

\* The stages declared after Quality Gate.
AfterQualityGate ==
    {n \in StageNames : PositionOf(n) > PositionOf("Quality Gate")}

\* C10: in a run whose quality gate failed, no stage after Quality Gate (build,
\* Docker build and push, the deployments) is executed.
C10_GateBlocksLaterStages ==
    qualityGate = "ERROR" => \A n \in AfterQualityGate : ~Ran(n)

\* The pipeline as the README documents it (CI/CD Pipeline, items 1 to 15).
documentedStages ==
    << "Clean Workspace", "Checkout", "Install Dependencies", "Lint Code",
       "Run Tests", "SonarQube Analysis", "Quality Gate", "Build Application",
       "OWASP Dependency Check", "Docker Scout FS", "Docker Build & Push",
       "Docker Scout Image", "Deploy Docker", "Deploy Kubernetes",
       "Smoke Tests" >>

\* The README's name for a stage of the Jenkinsfile.
documentedAs(name) ==
    CASE name = "Checkout from Git"        -> "Checkout"
      [] name = "Sonarqube Analysis"       -> "SonarQube Analysis"
      [] name = "Docker Scout FS Scan"     -> "Docker Scout FS"
      [] name = "Docker Build"             -> "Docker Build & Push"
      [] name = "Docker Push to Registry"  -> "Docker Build & Push"
      [] name = "Docker Scout Image Scan"  -> "Docker Scout Image"
      [] name = "Deploy Docker Container"  -> "Deploy Docker"
      [] name = "Deploy to Kubernetes"     -> "Deploy Kubernetes"
      [] OTHER                             -> name

DocumentedPosition(name) ==
    CHOOSE k \in 1..Len(documentedStages) : documentedStages[k] = documentedAs(name)

\* The positions of executed that hold a stage (not a post entry).
StageRuns == {i \in 1..Len(executed) : executed[i] \in StageNames}

RanBefore(first, then) ==
    \E i, j \in StageRuns : i < j /\ executed[i] = first /\ executed[j] = then

RanDocumented(doc) ==
    \E i \in StageRuns : documentedAs(executed[i]) = doc

\* C11: the stages run in the order the README documents: the executed stages
\* follow the documented positions; when the SonarQube analysis runs, the
\* dependencies were installed and the tests were run before it; an image is
\* deployed only after it was built and pushed; and a successful run on main
\* has run all fifteen documented stages.
C11_DocumentedOrder ==
    /\ \A i, j \in StageRuns :
          i < j => DocumentedPosition(executed[i]) <= DocumentedPosition(executed[j])
    /\ Ran("Sonarqube Analysis") =>
          /\ RanBefore("Install Dependencies", "Sonarqube Analysis")
          /\ \E i, j \in StageRuns :
                /\ i < j
                /\ documentedAs(executed[i]) = "Run Tests"
                /\ executed[j] = "Sonarqube Analysis"
    /\ \A d \in {"Deploy Docker Container", "Deploy to Kubernetes"} :
          Ran(d) => RanBefore("Docker Build", d) /\ RanBefore("Docker Push to Registry", d)
    /\ (run = "done" /\ result = "SUCCESS" /\ branch = "main") =>
          \A k \in 1..Len(documentedStages) : RanDocumented(documentedStages[k])

(***************************************************************************)
(* Properties of the server's routing                                      *)
(***************************************************************************)

\* The answering layers a request visited, in the order it visited them.
Tried(a) ==
    SelectSeq(a.response.trail,
              LAMBDA l : l \in {"health", "metrics", "static", "spa"})

\* C12: every GET is resolved in the order /health, /metrics, static asset,
\* entry document: /health and /metrics are answered by their own handlers
\* also when the bundle holds files of these names; a GET of an existing
\* asset is answered with that asset; and the entry document is sent only
\* when no asset matches.
C12_ResolutionOrder ==
    \A i \in Sent :
        answered[i].request.method = "GET" =>
            /\ Tried(answered[i]) =
                  SubSeq(<<"health", "metrics", "static", "spa">>,
                         1, Len(Tried(answered[i])))
            /\ answered[i].request.path = "/health"
                  => answered[i].response.via = "health"
            /\ answered[i].request.path = "/metrics"
                  => answered[i].response.via = "metrics"
            /\ (/\ answered[i].request.path \notin {"/health", "/metrics"}
                /\ Decodable(answered[i].request.path)
                /\ answered[i].request.path \in build)
                  => /\ answered[i].response.via = "static"
                     /\ answered[i].response.body.file = answered[i].request.path
            /\ answered[i].response.via = "spa"
                  => /\ answered[i].request.path \notin build
                     /\ answered[i].request.path \notin {"/health", "/metrics"}

\* Witness of C12: a bundle that holds a file named health; GET /health is
\* answered by the health handler and GET of an asset by express.static.
C12_Witness ==
    /\ "/health" \in build
    /\ \E i, j \in Sent :
          /\ IsGet(answered[i], "/health")
          /\ answered[i].response.via = "health"
          /\ IsGet(answered[j], "/static/js/main.js")
          /\ answered[j].response.via = "static"

====
